---- MODULE Spec2Model ----
(***************************************************************************)
(* A model of the music_xml crate: the typed-value extraction routines of  *)
(* src/score.rs, the FromNode mappers built on them, and the manifest      *)
(* lookup of src/mxl.rs.  Every routine is a pure function of an XML       *)
(* element, so each action applies one routine to an element drawn from a  *)
(* bounded set and records what it returned.                               *)
(*                                                                         *)
(* An element is [tag, attrs, text, chd]: attrs is a function from the     *)
(* attribute names present to their values, text is what roxmltree's       *)
(* Node::text() yields (None for an element without leading text), chd is  *)
(* the sequence of element children in document order.  A string is a      *)
(* sequence of characters, a character a one-character TLA+ string.        *)
(***************************************************************************)
EXTENDS Integers, Sequences, FiniteSets, TLC

VARIABLES overflow_checks, call, argument, result

vars == <<overflow_checks, call, argument, result>>

(* ---------------------------------------------------------------- bounds *)
MaxTextLen == 3
MaxChildren == 3

(* ------------------------------------------------------- Option / Result *)
None == [some |-> FALSE]
Some(x) == [some |-> TRUE, v |-> x]

Ok(x) == [kind |-> "Ok", v |-> x]
Err(e) == [kind |-> "Err", e |-> e]
\* an arithmetic-overflow panic: the call does not return
Panic == [kind |-> "Panic"]

(* ------------------------------------------------------------ characters *)
\* Unicode scalar values of the characters the inputs are drawn from; the
\* token "U+0141" stands for the single character of that scalar value
Code ==
  ("+" :> 43) @@ ("-" :> 45) @@ ("0" :> 48) @@ ("1" :> 49) @@ ("2" :> 50) @@
  ("3" :> 51) @@ ("4" :> 52) @@ ("5" :> 53) @@ ("6" :> 54) @@ ("9" :> 57) @@
  ("A" :> 65) @@ ("B" :> 66) @@ ("C" :> 67) @@ ("D" :> 68) @@ ("E" :> 69) @@
  ("F" :> 70) @@ ("G" :> 71) @@ ("H" :> 72) @@ ("e" :> 101) @@ ("x" :> 120) @@
  ("ÿ" :> 255) @@ ("U+0141" :> 321)

Digits == {c \in DOMAIN Code : Code[c] \in 48..57}

(* -------------------------------------------------------------- FromStr *)
\* type_name::<T>() of the target types in use
TyString == "alloc::string::String"
TyU8 == "u8"
TyU16 == "u16"
TyChar == "char"

MaxOf(ty) == IF ty = TyU8 THEN 255 ELSE 65535

RECURSIVE DecimalValue(_)
DecimalValue(ds) ==
  IF ds = <<>> THEN 0
  ELSE 10 * DecimalValue(SubSeq(ds, 1, Len(ds) - 1)) + (Code[ds[Len(ds)]] - 48)

\* <uN as FromStr>::from_str: an optional '+', then one or more decimal
\* digits, the value within the type's range; a '-' is an invalid digit
ParseDigits(ds, max) ==
  IF ds = <<>> \/ \E i \in 1..Len(ds) : ds[i] \notin Digits
    THEN Err("ParseIntError")
  ELSE IF DecimalValue(ds) > max THEN Err("ParseIntError")
  ELSE Ok(DecimalValue(ds))

ParseUnsigned(s, max) ==
  ParseDigits(IF s # <<>> /\ s[1] = "+" THEN Tail(s) ELSE s, max)

\* T::from_str for the target types the crate extracts
FromStr(ty, s) ==
  IF ty = TyString THEN Ok(s)
  ELSE IF ty = TyChar
    THEN IF Len(s) = 1 THEN Ok(s[1]) ELSE Err("ParseCharError")
  ELSE ParseUnsigned(s, MaxOf(ty))

(* ------------------------------------------------------------- roxmltree *)
Element(tag, attrs, text, chd) ==
  [tag |-> tag, attrs |-> attrs, text |-> text, chd |-> chd]

NoAttrs == [a \in {} |-> <<>>]

\* Node::attribute
Attribute_(node, attr) ==
  IF attr \in DOMAIN node.attrs THEN Some(node.attrs[attr]) ELSE None

\* node.children().filter(|c| c.tag_name().name() == name), as indices
Matching(node, name) == {i \in 1..Len(node.chd) : node.chd[i].tag = name}

Min(S) == CHOOSE i \in S : \A j \in S : i <= j

(* --------------------------------------------------- typed-value extraction *)
\* Result<T, _> to Result<Option<T>, Error>: `Some(..).transpose().map_err(..)`
map_err(r, e) == IF r.kind = "Ok" THEN Ok(Some(r.v)) ELSE Err(e)

\* Result<Option<T>> to Result<T>: `.transpose()`, the absent case an error
ok_or(r, e) ==
  IF r.kind # "Ok" THEN r ELSE IF r.v.some THEN Ok(r.v.v) ELSE Err(e)

parse_optional_attr(ty, node, attr) ==
  IF Attribute_(node, attr).some
    THEN map_err(FromStr(ty, Attribute_(node, attr).v),
                 [err |-> "AttrValueParseFailed", attr |-> attr, tag |-> node.tag,
                  v |-> Attribute_(node, attr).v, ty |-> ty])
  ELSE Ok(None)

\* a variant that drops the parse error (`.ok().flatten()`) before the
\* absence check
parse_attr_ErrAsAbsent(ty, node, attr) ==
  LET r == parse_optional_attr(ty, node, attr)
  IN  IF r.kind = "Ok" /\ r.v.some THEN Ok(r.v.v)
      ELSE Err([err |-> "AttrNotFound", attr |-> attr, tag |-> node.tag])

parse_attr(ty, node, attr) ==
  ok_or(parse_optional_attr(ty, node, attr),
        [err |-> "AttrNotFound", attr |-> attr, tag |-> node.tag])

\* the text of the child found, parsed: lines 71-84 of parse_optional_chd_text
parse_text(ty, name, text) ==
  IF ~text.some THEN Err([err |-> "NodeTextEmpty", tag |-> name])
  ELSE map_err(FromStr(ty, text.v),
               [err |-> "NodeTextParseFailed", tag |-> name, text |-> text.v, ty |-> ty])

\* a variant without the count: the first child with the tag wins
parse_optional_chd_text_FirstWins(ty, node, name) ==
  IF Matching(node, name) = {} THEN Ok(None)
  ELSE parse_text(ty, name, node.chd[Min(Matching(node, name))].text)

parse_optional_chd_text(ty, node, name) ==
  IF Cardinality(Matching(node, name)) = 0 THEN Ok(None)
  ELSE IF Cardinality(Matching(node, name)) # 1
    THEN Err([err |-> "DuplicatedNodesFound", tag |-> name, parent_tag |-> node.tag])
  ELSE parse_text(ty, name, node.chd[Min(Matching(node, name))].text)

parse_chd_text(ty, node, name) ==
  ok_or(parse_optional_chd_text(ty, node, name),
        [err |-> "NodeNotFound", tag |-> name, parent_tag |-> node.tag])

(* ------------------------------------------------ collect-many / optional *)
\* a variant that keeps what maps and drops what does not
\* (`filter_map(Result::ok)`)
RECURSIVE collect_SkipFailures(_)
collect_SkipFailures(outs) ==
  IF outs = <<>> THEN Ok(<<>>)
  ELSE LET r == collect_SkipFailures(Tail(outs))
       IN  IF Head(outs).kind # "Ok" THEN r ELSE Ok(<<Head(outs).v>> \o r.v)

\* Iterator::collect::<Result<Vec<T>>>: stops at the first item that is not Ok
RECURSIVE collect(_)
collect(outs) ==
  IF outs = <<>> THEN Ok(<<>>)
  ELSE IF Head(outs).kind # "Ok" THEN Head(outs)
  ELSE IF collect(Tail(outs)).kind # "Ok" THEN collect(Tail(outs))
  ELSE Ok(<<Head(outs).v>> \o collect(Tail(outs)).v)

\* the subsequence of s at the indices in I, in order
RECURSIVE Pick(_, _)
Pick(s, I) ==
  IF I = {} THEN <<>> ELSE <<s[Min(I)]>> \o Pick(s, I \ {Min(I)})

\* the children of node with the tag T, as a set
Tagged(node, T) == {node.chd[i] : i \in Matching(node, T)}

\* Option<Result<T>> to Result<Option<T>>: `.transpose()`
transpose(r) == IF r.kind = "Ok" THEN Ok(Some(r.v)) ELSE r

\* each item of the sequence mapped: `.map(|c| T::from_node(&c))`
map(matching, from_node) == [i \in 1..Len(matching) |-> from_node[matching[i]]]

\* In both routines T is given by T::tag() and by T::from_node, the latter as
\* a function on the children of node with that tag.
parse_children(node, T, from_node) ==
  collect(map(Pick(node.chd, Matching(node, T)), from_node))

parse_option_chd(node, T, from_node) ==
  IF Matching(node, T) = {} THEN Ok(None)
  ELSE transpose(from_node[node.chd[Min(Matching(node, T))]])

(* ------------------------------------------------------------------ mappers *)
\* Each from_node evaluates the fields of its record in the order written,
\* `?` returning the first one that is not Ok; the record operator below gets
\* the fields' results in that order.

\* `.unwrap_or(default)` on an Option
unwrap_or(o, default) == IF o.some THEN o.v ELSE default

Clef(number, sign, line) ==
  IF number.kind # "Ok" THEN number
  ELSE IF sign.kind # "Ok" THEN sign
  ELSE IF line.kind # "Ok" THEN line
  ELSE Ok([number |-> unwrap_or(number.v, 1), sign |-> sign.v, line |-> line.v])

\* a variant that takes the default for an unparseable number too
\* (`.unwrap_or_default()` on the Result)
ClefFromNode_DefaultOnError(node) ==
  LET number == parse_optional_attr(TyU8, node, "number")
  IN  Clef(IF number.kind = "Ok" THEN number ELSE Ok(None),
           parse_chd_text(TyChar, node, "sign"),
           parse_optional_chd_text(TyU8, node, "line"))

ClefFromNode(node) ==
  Clef(parse_optional_attr(TyU8, node, "number"),
       parse_chd_text(TyChar, node, "sign"),
       parse_optional_chd_text(TyU8, node, "line"))

Attribute(divisions, staves, clef) ==
  IF divisions.kind # "Ok" THEN divisions
  ELSE IF staves.kind # "Ok" THEN staves
  ELSE IF clef.kind # "Ok" THEN clef
  ELSE Ok([divisions |-> divisions.v, staves |-> staves.v, clef |-> clef.v])

AttributeFromNode(node) ==
  Attribute(parse_chd_text(TyU8, node, "divisions"),
            parse_chd_text(TyU8, node, "staves"),
            parse_children(node, "clef", [c \in Tagged(node, "clef") |-> ClefFromNode(c)]))

RestFromNode(node) == Ok([rest |-> TRUE])

\* a variant with the offset one short: (s as u8 + 4 - b'A') % 7 + 1
StepToJianpu_OffByOne(s) ==
  LET s8 == Code[s] % 256
      sum == s8 + 4
      diff == (sum % 256) - 65
  IN  IF (sum > 255 \/ diff < 0) /\ overflow_checks THEN Panic
      ELSE Ok(((diff % 256) % 7) + 1)

\* |s| (s as u8 + 5 - b'A') % 7 + 1 in u8 arithmetic: an addition or a
\* subtraction that leaves 0..255 panics when the build checks overflow and
\* wraps when it does not
StepToJianpu(s) ==
  LET s8 == Code[s] % 256
      sum == s8 + 5
      diff == (sum % 256) - 65
  IN  IF (sum > 255 \/ diff < 0) /\ overflow_checks THEN Panic
      ELSE Ok(((diff % 256) % 7) + 1)

\* `.map(|s| ..)` on the step's Result: the closure runs on an Ok only
map_step(s) == IF s.kind = "Ok" THEN StepToJianpu(s.v) ELSE s

Pitch(step, alter, octave) ==
  IF step.kind # "Ok" THEN step
  ELSE IF alter.kind # "Ok" THEN alter
  ELSE IF octave.kind # "Ok" THEN octave
  ELSE Ok([step |-> step.v, alter |-> unwrap_or(alter.v, 0), octave |-> octave.v])

PitchFromNode(node) ==
  Pitch(map_step(parse_chd_text(TyChar, node, "step")),
        parse_optional_chd_text(TyU8, node, "alter"),
        parse_chd_text(TyU8, node, "octave"))

NoteTypeRest(r) == [variant |-> "Rest", rest |-> r]
NoteTypePitch(p) == [variant |-> "Pitch", pitch |-> p]

\* `.unwrap_or(default)` on a Result
result_unwrap_or(r, default) == IF r.kind = "Ok" THEN r.v ELSE default

\* the body of Note::from_node, given the two members of the exclusive group
\* and the duration's Result
Note(rest, pitch, duration) ==
  IF rest.kind # "Ok" THEN rest
  ELSE IF pitch.kind # "Ok" THEN pitch
  ELSE IF rest.v.some /\ pitch.v.some
    THEN Err([err |-> "ExclusiveNodeFound", tags |-> <<"rest", "pitch">>,
              parent_tag |-> "note"])
  ELSE IF rest.v.some
    THEN Ok([note_type |-> NoteTypeRest(rest.v.v),
             duration |-> result_unwrap_or(duration, 0)])
  ELSE IF pitch.v.some
    THEN Ok([note_type |-> NoteTypePitch(pitch.v.v),
             duration |-> result_unwrap_or(duration, 0)])
  ELSE Err([err |-> "ExclusiveNodeGroupNotFound", tags |-> <<"rest", "pitch">>,
            parent_tag |-> "note"])

\* a variant that looks for the two tags before it maps the pitch
NoteFromNode_ExclusiveFirst(node) ==
  IF Matching(node, "rest") # {} /\ Matching(node, "pitch") # {}
    THEN Err([err |-> "ExclusiveNodeFound", tags |-> <<"rest", "pitch">>,
              parent_tag |-> "note"])
  ELSE Note(parse_option_chd(node, "rest", [c \in Tagged(node, "rest") |-> RestFromNode(c)]),
            parse_option_chd(node, "pitch",
                             [c \in Tagged(node, "pitch") |-> PitchFromNode(c)]),
            parse_chd_text(TyU8, node, "duration"))

\* a variant that propagates the duration's error (`?` for `.unwrap_or(0)`)
NoteFromNode_StrictDuration(node) ==
  LET note == Note(parse_option_chd(node, "rest",
                                    [c \in Tagged(node, "rest") |-> RestFromNode(c)]),
                   parse_option_chd(node, "pitch",
                                    [c \in Tagged(node, "pitch") |-> PitchFromNode(c)]),
                   parse_chd_text(TyU8, node, "duration"))
      duration == parse_chd_text(TyU8, node, "duration")
  IN  IF note.kind = "Ok" /\ duration.kind # "Ok" THEN duration ELSE note

NoteFromNode(node) ==
  Note(parse_option_chd(node, "rest", [c \in Tagged(node, "rest") |-> RestFromNode(c)]),
       parse_option_chd(node, "pitch", [c \in Tagged(node, "pitch") |-> PitchFromNode(c)]),
       parse_chd_text(TyU8, node, "duration"))

Measure(number, attr, notes) ==
  IF number.kind # "Ok" THEN number
  ELSE IF attr.kind # "Ok" THEN attr
  ELSE IF notes.kind # "Ok" THEN notes
  ELSE Ok([number |-> number.v, attr |-> attr.v, notes |-> notes.v])

MeasureFromNode(node) ==
  Measure(parse_attr(TyU16, node, "number"),
          parse_option_chd(node, "attributes",
                           [c \in Tagged(node, "attributes") |-> AttributeFromNode(c)]),
          parse_children(node, "note", [c \in Tagged(node, "note") |-> NoteFromNode(c)]))

Part(measures) ==
  IF measures.kind # "Ok" THEN measures ELSE Ok([measures |-> measures.v])

PartFromNode(node) ==
  Part(parse_children(node, "measure",
                      [c \in Tagged(node, "measure") |-> MeasureFromNode(c)]))

Score(parts) == IF parts.kind # "Ok" THEN parts ELSE Ok([parts |-> parts.v])

ScoreFromNode(node) ==
  Score(parse_children(node, "part", [c \in Tagged(node, "part") |-> PartFromNode(c)]))

(* ------------------------------------------------------------ archive, mxl *)
\* An archive maps entry names to contents.  An entry's content is not
\* UTF-8, or is text; text is malformed XML, or a document with a root
\* element.  In the manifest no attribute value is parsed, so the values are
\* kept as whole strings.
NotUtf8 == [utf8 |-> FALSE]
Malformed == [utf8 |-> TRUE, wellformed |-> FALSE]
Doc(root) == [utf8 |-> TRUE, wellformed |-> TRUE, root |-> root]

ContainerPath == "META-INF/container.xml"
ScoreMediaType == "application/vnd.recordare.musicxml+xml"

\* Mxl::extra_text_file: by_name, then read_to_string
extra_text_file(archive, path) ==
  IF path \notin DOMAIN archive THEN Err([err |-> "UnzipFailed"])
  ELSE IF ~archive[path].utf8 THEN Err([err |-> "Io"])
  ELSE Ok(archive[path])

\* Document::parse, with the error converted by From<roxmltree::Error>
DocumentParse(xml) ==
  IF xml.wellformed THEN Ok(xml.root) ELSE Err([err |-> "XmlDocParseFailed"])

\* a variant that takes only a rootfile whose media-type is the score media
\* type
candidates_StrictMediaType(rootfiles) ==
  {i \in Matching(rootfiles, "rootfile") :
     Attribute_(rootfiles.chd[i], "media-type") = Some(ScoreMediaType)}

\* the rootfile children that the `find` of lines 57-62 accepts, as indices
candidates(rootfiles) ==
  {i \in Matching(rootfiles, "rootfile") :
     \/ Attribute_(rootfiles.chd[i], "media-type") = Some(ScoreMediaType)
     \/ Attribute_(rootfiles.chd[i], "media-type") = None}

\* lines 54-72: the rootfile chosen among the children of rootfiles, and its
\* full-path
rootfile_path(rootfiles, cands) ==
  IF cands = {}
    THEN Err([err |-> "NodeNotFound", tag |-> "rootfile", parent_tag |-> rootfiles.tag])
  ELSE IF ~Attribute_(rootfiles.chd[Min(cands)], "full-path").some
    THEN Err([err |-> "AttrNotFound", attr |-> "full-path", tag |-> "rootfile"])
  ELSE Ok(Attribute_(rootfiles.chd[Min(cands)], "full-path").v)

\* lines 46-53: the first rootfiles child of the root
manifest_path(root) ==
  IF Matching(root, "rootfiles") = {}
    THEN Err([err |-> "NodeNotFound", tag |-> "rootfiles", parent_tag |-> root.tag])
  ELSE rootfile_path(root.chd[Min(Matching(root, "rootfiles"))],
                     candidates(root.chd[Min(Matching(root, "rootfiles"))]))

\* `?` on a Result, then the rest of the function on its value
document_path(doc) == IF doc.kind # "Ok" THEN doc ELSE manifest_path(doc.v)

text_path(xml) == IF xml.kind # "Ok" THEN xml ELSE document_path(DocumentParse(xml.v))

parse_music_xml_path(archive) == text_path(extra_text_file(archive, ContainerPath))

\* Score::from_xml: the root element is mapped whatever its tag
score_of_document(doc) == IF doc.kind # "Ok" THEN doc ELSE ScoreFromNode(doc.v)

ScoreFromXml(xml) == score_of_document(DocumentParse(xml))

score_of_text(xml) == IF xml.kind # "Ok" THEN xml ELSE ScoreFromXml(xml.v)

score_at(archive, path) ==
  IF path.kind # "Ok" THEN path ELSE score_of_text(extra_text_file(archive, path.v))

parse_music_xml(archive) == score_at(archive, parse_music_xml_path(archive))

(* ------------------------------------------------------------------ inputs *)
NumChars == {"+", "-", "0", "2", "3", "6"}

RECURSIVE Strings(_, _)
Strings(chars, n) ==
  IF n = 0 THEN {<<>>}
  ELSE LET shorter == Strings(chars, n - 1)
       IN  shorter \cup {Append(s, c) : s \in {t \in shorter : Len(t) = n - 1}, c \in chars}

NumTexts == Strings(NumChars, MaxTextLen) \ {<<>>}

AttrNodes ==
  {Element(tag, attrs, None, <<>>) :
     tag \in {"slur", "measure"},
     attrs \in UNION {[names -> NumTexts \cup {<<"s", "t", "a", "r", "t">>}] :
                        names \in {{}, {"type"}, {"number"}}}}

Leaf(tag, text) == Element(tag, NoAttrs, text, <<>>)
Node(tag, chd) == Element(tag, NoAttrs, None, chd)

SeqsUpTo(S, n) == UNION {[1..k -> S] : k \in 0..n}

\* children for the child-text routines: the tag asked for and another one
TextLeaves ==
  {Leaf(tag, text) :
     tag \in {"duration", "voice"},
     text \in {None, Some(<<"6", "0">>), Some(<<"-", "1">>), Some(<<"E">>)}}

TextNodes == {Node("note", chd) : chd \in SeqsUpTo(TextLeaves, MaxChildren)}

\* clef
ClefNumbers ==
  {NoAttrs} \cup
  {[a \in {"number"} |-> v] : v \in {<<"1">>, <<"2">>, <<"+", "2">>, <<"x">>, <<"3", "0", "0">>}}

ClefLeaves ==
  {Leaf("sign", Some(<<"G">>)), Leaf("sign", Some(<<"F">>)), Leaf("sign", None),
   Leaf("line", Some(<<"2">>)), Leaf("line", Some(<<"x">>))}

ClefNodes ==
  {Element("clef", attrs, None, chd) :
     attrs \in ClefNumbers, chd \in SeqsUpTo(ClefLeaves, MaxChildren)}

\* pitch
StepChars == {"A", "B", "C", "D", "E", "F", "G", "H", "e", "4", "ÿ", "U+0141"}

PitchLeaves ==
  {Leaf("step", Some(<<c>>)) : c \in StepChars} \cup
  {Leaf("step", Some(<<"E", "F">>)), Leaf("step", None),
   Leaf("alter", Some(<<"1">>)), Leaf("alter", Some(<<"-", "1">>)),
   Leaf("octave", Some(<<"4">>)), Leaf("octave", Some(<<"x">>))}

PitchNodes == {Node("pitch", chd) : chd \in SeqsUpTo(PitchLeaves, MaxChildren)}

\* note
PitchE4 == Node("pitch", <<Leaf("step", Some(<<"E">>)), Leaf("octave", Some(<<"4">>))>>)
PitchBFlat4 ==
  Node("pitch", <<Leaf("step", Some(<<"B">>)), Leaf("alter", Some(<<"-", "1">>)),
                  Leaf("octave", Some(<<"4">>))>>)
PitchNoOctave == Node("pitch", <<Leaf("step", Some(<<"C">>))>>)
PitchDigit == Node("pitch", <<Leaf("step", Some(<<"4">>)), Leaf("octave", Some(<<"4">>))>>)
RestNode == Node("rest", <<>>)
Duration60 == Leaf("duration", Some(<<"6", "0">>))

NoteLeaves ==
  {RestNode, PitchE4, PitchBFlat4, PitchNoOctave, PitchDigit, Duration60,
   Leaf("duration", Some(<<"3", "0", "0">>)), Leaf("duration", None),
   Node("chord", <<>>)}

NoteNodes == {Node("note", chd) : chd \in SeqsUpTo(NoteLeaves, MaxChildren)}

\* attributes
ClefG == Node("clef", <<Leaf("sign", Some(<<"G">>))>>)
ClefF2 ==
  Element("clef", [a \in {"number"} |-> <<"2">>], None,
          <<Leaf("sign", Some(<<"F">>)), Leaf("line", Some(<<"4">>))>>)
ClefNoSign == Node("clef", <<Leaf("line", Some(<<"2">>))>>)
ClefBadLine == Node("clef", <<Leaf("sign", Some(<<"G">>)), Leaf("line", Some(<<"x">>))>>)
Divisions1 == Leaf("divisions", Some(<<"1">>))
Staves2 == Leaf("staves", Some(<<"2">>))

AttributeNodes ==
  {Node("attributes", pre \o tail) :
     pre \in {<<>>, <<Divisions1>>, <<Divisions1, Staves2>>,
              <<Leaf("divisions", Some(<<"x">>)), Staves2>>},
     tail \in SeqsUpTo({ClefG, ClefF2, ClefNoSign, ClefBadLine, Staves2}, MaxChildren)}

\* measure
NoteRest60 == Node("note", <<RestNode, Duration60>>)
NoteE4 == Node("note", <<PitchE4, Duration60>>)
NoteNeither == Node("note", <<Duration60>>)
NoteBoth == Node("note", <<RestNode, PitchE4>>)
NoteDigit == Node("note", <<PitchDigit>>)
AttributesGood == Node("attributes", <<Divisions1, Staves2, ClefG>>)
AttributesBad == Node("attributes", <<Divisions1>>)

MeasureNodes ==
  {Element("measure", attrs, None, chd) :
     attrs \in {NoAttrs, [a \in {"number"} |-> <<"1">>], [a \in {"number"} |-> <<"x">>]},
     chd \in SeqsUpTo({NoteRest60, NoteE4, NoteNeither, NoteBoth, NoteDigit,
                       AttributesGood, AttributesBad}, MaxChildren)}

\* part, score
MeasureNode(n, chd) == Element("measure", [a \in {"number"} |-> n], None, chd)
Measure1 == MeasureNode(<<"1">>, <<AttributesGood, NoteRest60, NoteE4>>)
Measure2 == MeasureNode(<<"2">>, <<NoteE4>>)
MeasureNoNumber == Node("measure", <<NoteE4>>)
MeasureBadNote == MeasureNode(<<"3">>, <<NoteBoth>>)
MeasureDigit == MeasureNode(<<"4">>, <<NoteDigit>>)

PartNodes ==
  {Node("part", chd) :
     chd \in SeqsUpTo({Measure1, Measure2, MeasureNoNumber, MeasureBadNote,
                       MeasureDigit, Node("barline", <<>>)}, MaxChildren)}

Part12 == Node("part", <<Measure1, Measure2>>)
Part21 == Node("part", <<Measure2, Measure1>>)
PartEmpty == Node("part", <<>>)
PartNoNumber == Node("part", <<Measure1, MeasureNoNumber>>)
PartBadNote == Node("part", <<MeasureBadNote>>)
PartDigit == Node("part", <<MeasureDigit>>)

ScoreNodes ==
  {Node("score-partwise", chd) :
     chd \in SeqsUpTo({Part12, Part21, PartEmpty, PartNoNumber, PartBadNote,
                       PartDigit, Node("part-list", <<>>)}, MaxChildren)}

\* manifest
Rootfiles ==
  {Element("rootfile", mt @@ fp, None, <<>>) :
     mt \in {NoAttrs, [a \in {"media-type"} |-> ScoreMediaType],
             [a \in {"media-type"} |-> "application/pdf"]},
     fp \in {NoAttrs, [a \in {"full-path"} |-> "a.xml"],
             [a \in {"full-path"} |-> "b.xml"]}}

RootfilesChildren ==
  Rootfiles \cup
  {Element("other", [a \in {"full-path"} |-> "c.xml"], None, <<>>)}

ContainerRoots ==
  {Node("container", <<>>), Node("container", <<Node("other", <<>>)>>)} \cup
  {Node("container", pre \o <<Node("rootfiles", chd)>> \o post) :
     pre \in {<<>>, <<Node("other", <<>>)>>},
     post \in {<<>>, <<Node("rootfiles",
                            <<Element("rootfile", [a \in {"full-path"} |-> "z.xml"],
                                      None, <<>>)>>)>>},
     chd \in SeqsUpTo(RootfilesChildren, MaxChildren)}

Manifests == {NotUtf8, Malformed} \cup {Doc(root) : root \in ContainerRoots}

ManifestArchives ==
  {[p \in {} |-> None]} \cup {[p \in {ContainerPath} |-> m] : m \in Manifests}

ScoreXmls ==
  {Malformed, Doc(Node("score-partwise", <<Part12>>)),
   Doc(Node("score-partwise", <<PartDigit, PartNoNumber>>)),
   Doc(Node("part", <<Measure2>>))}

ManifestFor(chd) == Doc(Node("container", <<Node("rootfiles", chd)>>))

MxlArchives ==
  {[p \in {} |-> None]} \cup
  {(ContainerPath :> m) @@ entries :
     m \in {Malformed,
            ManifestFor(<<>>),
            ManifestFor(<<Element("rootfile", [a \in {"full-path"} |-> "a.xml"],
                                  None, <<>>)>>),
            ManifestFor(<<Element("rootfile",
                                  [a \in {"media-type", "full-path"} |->
                                     IF a = "full-path" THEN "a.xml"
                                     ELSE "application/pdf"], None, <<>>),
                          Element("rootfile", [a \in {"full-path"} |-> "b.xml"],
                                  None, <<>>)>>)},
     entries \in UNION {[names -> ScoreXmls \cup {NotUtf8}] :
                          names \in SUBSET {"a.xml", "b.xml"}}}

(* ----------------------------------------------------------------- actions *)
Init ==
  /\ overflow_checks \in BOOLEAN
  /\ call = "none"
  /\ argument = None
  /\ result = None

\* one call of a routine on a fresh input: its argument and what it returned
\* are recorded
Call(name, a, r) ==
  /\ call' = name
  /\ argument' = a
  /\ result' = r
  /\ UNCHANGED overflow_checks

ParseAttr ==
  /\ call = "none"
  /\ \E node \in AttrNodes, attr \in {"type", "number"}, ty \in {TyString, TyU8, TyU16} :
      Call("parse_attr", [ty |-> ty, node |-> node, name |-> attr],
           parse_attr(ty, node, attr))

ParseOptionalChdText ==
  /\ call = "none"
  /\ \E node \in TextNodes, ty \in {TyU8, TyChar} :
      Call("parse_optional_chd_text", [ty |-> ty, node |-> node, name |-> "duration"],
           parse_optional_chd_text(ty, node, "duration"))

ParseChdText ==
  /\ call = "none"
  /\ \E node \in TextNodes, ty \in {TyU8, TyChar} :
      Call("parse_chd_text", [ty |-> ty, node |-> node, name |-> "duration"],
           parse_chd_text(ty, node, "duration"))

ClefFromNodeCall ==
  /\ call = "none"
  /\ \E node \in ClefNodes : Call("Clef::from_node", [node |-> node], ClefFromNode(node))

AttributeFromNodeCall ==
  /\ call = "none"
  /\ \E node \in AttributeNodes :
      Call("Attribute::from_node", [node |-> node], AttributeFromNode(node))

PitchFromNodeCall ==
  /\ call = "none"
  /\ \E node \in PitchNodes : Call("Pitch::from_node", [node |-> node], PitchFromNode(node))

NoteFromNodeCall ==
  /\ call = "none"
  /\ \E node \in NoteNodes : Call("Note::from_node", [node |-> node], NoteFromNode(node))

MeasureFromNodeCall ==
  /\ call = "none"
  /\ \E node \in MeasureNodes :
      Call("Measure::from_node", [node |-> node], MeasureFromNode(node))

PartFromNodeCall ==
  /\ call = "none"
  /\ \E node \in PartNodes : Call("Part::from_node", [node |-> node], PartFromNode(node))

ScoreFromNodeCall ==
  /\ call = "none"
  /\ \E node \in ScoreNodes : Call("Score::from_node", [node |-> node], ScoreFromNode(node))

ParseMusicXmlPath ==
  /\ call = "none"
  /\ \E archive \in ManifestArchives :
      Call("parse_music_xml_path", [archive |-> archive], parse_music_xml_path(archive))

ParseMusicXml ==
  /\ call = "none"
  /\ \E archive \in MxlArchives :
      Call("parse_music_xml", [archive |-> archive], parse_music_xml(archive))

Next ==
  \/ ParseAttr
  \/ ParseOptionalChdText
  \/ ParseChdText
  \/ ClefFromNodeCall
  \/ AttributeFromNodeCall
  \/ PitchFromNodeCall
  \/ NoteFromNodeCall
  \/ MeasureFromNodeCall
  \/ PartFromNodeCall
  \/ ScoreFromNodeCall
  \/ ParseMusicXmlPath
  \/ ParseMusicXml

Spec == Init /\ [][Next]_vars

(* ------------------------------------------------------------------ claims *)
\* the number of direct children of node with the given tag
Count(node, tag) == Cardinality({i \in 1..Len(node.chd) : node.chd[i].tag = tag})

\* the only child of node with the given tag (when Count is 1)
Only(node, tag) ==
  node.chd[CHOOSE i \in 1..Len(node.chd) : node.chd[i].tag = tag]

\* the first child of node with the given tag (when Count is not 0)
First(node, tag) ==
  node.chd[CHOOSE i \in 1..Len(node.chd) :
             /\ node.chd[i].tag = tag
             /\ \A j \in 1..(i - 1) : node.chd[j].tag # tag]

\* node has exactly one child with the tag, and its text parses as ty
HasParseable(ty, node, tag) ==
  /\ Count(node, tag) = 1
  /\ Only(node, tag).text.some
  /\ FromStr(ty, Only(node, tag).text.v).kind = "Ok"

ParsedChild(ty, node, tag) == FromStr(ty, Only(node, tag).text.v).v

\* C4: parse_attr returns the parsed value of a present, parseable attribute
\* ("start" for <slur type="start"/> read as a String), AttrNotFound with the
\* attribute name and the element's tag when the attribute is absent, and
\* AttrValueParseFailed, never AttrNotFound, when the value does not parse.
C4_ParseAttrOutcome ==
  call = "parse_attr" =>
    LET node == argument.node
        present == argument.name \in DOMAIN node.attrs
    IN  /\ ~present =>
             result = Err([err |-> "AttrNotFound", attr |-> argument.name, tag |-> node.tag])
        /\ present /\ FromStr(argument.ty, node.attrs[argument.name]).kind = "Ok" =>
             result = Ok(FromStr(argument.ty, node.attrs[argument.name]).v)
        /\ present /\ FromStr(argument.ty, node.attrs[argument.name]).kind # "Ok" =>
             /\ result.kind = "Err"
             /\ result.e.err = "AttrValueParseFailed"
             /\ result.e.attr = argument.name
             /\ result.e.v = node.attrs[argument.name]
        /\ present /\ argument.ty = TyString /\ node.attrs[argument.name] = <<"s", "t", "a", "r", "t">> =>
             result = Ok(<<"s", "t", "a", "r", "t">>)

\* a present attribute whose value is not a u8 has been asked for
C4_Witness ==
  /\ call = "parse_attr"
  /\ argument.ty = TyU8
  /\ argument.name = "number"
  /\ argument.node.attrs = [a \in {"number"} |-> <<"-", "2">>]
  /\ result.kind = "Err"

\* C5: the child-text routines decide by the number of direct children with
\* the tag: none gives Ok(None) (NodeNotFound with child and parent tag for
\* the required form); one gives its parsed text, NodeTextEmpty without
\* text, NodeTextParseFailed when the text does not parse; two or more give
\* DuplicatedNodesFound whatever the texts are.
C5_ChildTextByCount ==
  call \in {"parse_optional_chd_text", "parse_chd_text"} =>
    LET node == argument.node
        n == Count(node, argument.name)
        text == Only(node, argument.name).text
        optional == call = "parse_optional_chd_text"
    IN  /\ n = 0 /\ optional => result = Ok(None)
        /\ n = 0 /\ ~optional =>
             result = Err([err |-> "NodeNotFound", tag |-> argument.name,
                        parent_tag |-> node.tag])
        /\ n >= 2 =>
             result = Err([err |-> "DuplicatedNodesFound", tag |-> argument.name,
                        parent_tag |-> node.tag])
        /\ n = 1 /\ ~text.some => result = Err([err |-> "NodeTextEmpty", tag |-> argument.name])
        /\ n = 1 /\ text.some /\ FromStr(argument.ty, text.v).kind = "Ok" =>
             result = Ok(IF optional THEN Some(FromStr(argument.ty, text.v).v)
                      ELSE FromStr(argument.ty, text.v).v)
        /\ n = 1 /\ text.some /\ FromStr(argument.ty, text.v).kind # "Ok" =>
             result = Err([err |-> "NodeTextParseFailed", tag |-> argument.name,
                        text |-> text.v, ty |-> argument.ty])

\* two children with the tag, the first of them with a parseable text
C5_Witness ==
  /\ call = "parse_optional_chd_text"
  /\ argument.ty = TyU8
  /\ Count(argument.node, "duration") = 2
  /\ First(argument.node, "duration").text = Some(<<"6", "0">>)
  /\ result.kind = "Err"

\* C7: a Clef mapped from an element without a number attribute has number
\* 1; with a number attribute it has the parsed value (2 for number="2");
\* a number that does not parse is AttrValueParseFailed, not the default.
C7_ClefNumber ==
  call = "Clef::from_node" =>
    LET node == argument.node
        present == "number" \in DOMAIN node.attrs
        parsed == FromStr(TyU8, node.attrs["number"])
        rest_valid == /\ HasParseable(TyChar, node, "sign")
                      /\ Count(node, "line") = 0 \/ HasParseable(TyU8, node, "line")
    IN  /\ present /\ parsed.kind # "Ok" =>
             result.kind = "Err" /\ result.e.err = "AttrValueParseFailed"
        /\ rest_valid /\ ~present => result.kind = "Ok" /\ result.v.number = 1
        /\ rest_valid /\ present /\ parsed.kind = "Ok" =>
             result.kind = "Ok" /\ result.v.number = parsed.v
        /\ rest_valid /\ present /\ node.attrs["number"] = <<"2">> =>
             result.kind = "Ok" /\ result.v.number = 2
        /\ result.kind = "Ok" =>
             result.v.number = IF present THEN parsed.v ELSE 1

\* a clef with a sign and no number attribute has been mapped
C7_Witness ==
  /\ call = "Clef::from_node"
  /\ "number" \notin DOMAIN argument.node.attrs
  /\ HasParseable(TyChar, argument.node, "sign")
  /\ result.kind = "Ok"
  /\ result.v.number = 1

\* the outcome of mapping the first pitch child of a note (when it has one)
FirstPitchOutcome(node) == PitchFromNode(First(node, "pitch"))

ExclusiveNodeFoundError ==
  Err([err |-> "ExclusiveNodeFound", tags |-> <<"rest", "pitch">>, parent_tag |-> "note"])

ExclusiveNodeGroupNotFoundError ==
  Err([err |-> "ExclusiveNodeGroupNotFound", tags |-> <<"rest", "pitch">>,
       parent_tag |-> "note"])

\* C1 as stated: a note with both a rest and a pitch child is
\* ExclusiveNodeFound whatever those children contain, one with neither is
\* ExclusiveNodeGroupNotFound, and one with exactly one of the two maps to
\* the corresponding variant.
C1_Original ==
  call = "Note::from_node" =>
    LET has_rest == Count(argument.node, "rest") > 0
        has_pitch == Count(argument.node, "pitch") > 0
    IN  /\ has_rest /\ has_pitch => result = ExclusiveNodeFoundError
        /\ ~has_rest /\ ~has_pitch => result = ExclusiveNodeGroupNotFoundError
        /\ has_rest /\ ~has_pitch =>
             result.kind = "Ok" /\ result.v.note_type.variant = "Rest"
        /\ ~has_rest /\ has_pitch =>
             result.kind = "Ok" /\ result.v.note_type.variant = "Pitch"

\* C1 (amended): when the note has a pitch child and mapping its first pitch
\* child fails, the result is that failure, with or without a rest child;
\* otherwise a note with both a rest and a pitch child is ExclusiveNodeFound,
\* one with neither is ExclusiveNodeGroupNotFound, and one with exactly one of
\* the two maps to the corresponding variant.
C1_ExclusiveGroup ==
  call = "Note::from_node" =>
    LET has_rest == Count(argument.node, "rest") > 0
        has_pitch == Count(argument.node, "pitch") > 0
        p == FirstPitchOutcome(argument.node)
    IN  /\ has_pitch /\ p.kind # "Ok" => result = p
        /\ has_rest /\ has_pitch /\ p.kind = "Ok" => result = ExclusiveNodeFoundError
        /\ ~has_rest /\ ~has_pitch => result = ExclusiveNodeGroupNotFoundError
        /\ has_rest /\ ~has_pitch =>
             result.kind = "Ok" /\ result.v.note_type = NoteTypeRest([rest |-> TRUE])
        /\ ~has_rest /\ has_pitch /\ p.kind = "Ok" =>
             result.kind = "Ok" /\ result.v.note_type = NoteTypePitch(p.v)

\* a note with a rest and a pitch that lacks its octave has been mapped
C1_Witness ==
  /\ call = "Note::from_node"
  /\ Count(argument.node, "rest") = 1
  /\ Count(argument.node, "pitch") = 1
  /\ First(argument.node, "pitch") = PitchNoOctave
  /\ result.kind = "Err"
  /\ result.e.err = "NodeNotFound"

Letters == {"A", "B", "C", "D", "E", "F", "G"}

\* the scale degree of each letter name, C = 1
Degree ==
  ("A" :> 6) @@ ("B" :> 7) @@ ("C" :> 1) @@ ("D" :> 2) @@ ("E" :> 3) @@
  ("F" :> 4) @@ ("G" :> 5)

\* node has exactly one step child, holding a single character
HasStepChar(node) ==
  /\ Count(node, "step") = 1
  /\ Only(node, "step").text.some
  /\ Len(Only(node, "step").text.v) = 1

StepChar(node) == Only(node, "step").text.v[1]

\* C2: a pitch whose step child holds one of the letters A..G never panics,
\* and when it maps its step is 6, 7, 1, 2, 3, 4, 5 for A, B, C, D, E, F, G,
\* whatever the other children and the build are; it maps when alter is
\* absent or a u8 and octave is a u8 (step E, no alter, octave 4 gives
\* Pitch{step: 3, alter: 0, octave: 4}).
C2_StepOfLetter ==
  call = "Pitch::from_node" /\ HasStepChar(argument.node) /\ StepChar(argument.node) \in Letters =>
    LET node == argument.node
    IN  /\ result.kind # "Panic"
        /\ result.kind = "Ok" => result.v.step = Degree[StepChar(node)]
        /\ result.kind = "Err" => result.e.tag # "step"
        /\ /\ Count(node, "alter") = 0 \/ HasParseable(TyU8, node, "alter")
           /\ HasParseable(TyU8, node, "octave")
           => result.kind = "Ok"
        /\ node = PitchE4 => result = Ok([step |-> 3, alter |-> 0, octave |-> 4])

\* the pitch E4 without alter has been mapped
C2_Witness ==
  /\ call = "Pitch::from_node"
  /\ argument.node = PitchE4
  /\ result.kind = "Ok"
  /\ result.v.step = 3

\* C3: a pitch whose step child holds a single character that is not one of
\* A..G is a parse failure (NodeTextParseFailed for step): it is never a
\* Pitch and never a panic, so every Pitch mapped from a single-character
\* step has a step in 1..7 that came from a letter A..G.  (Stated for pitches
\* whose other children are valid, where the step alone decides the result.)
C3_NonLetterIsParseFailure ==
  /\ call = "Pitch::from_node"
  /\ HasStepChar(argument.node)
  /\ Count(argument.node, "alter") = 0 \/ HasParseable(TyU8, argument.node, "alter")
  /\ HasParseable(TyU8, argument.node, "octave")
  =>
    /\ StepChar(argument.node) \notin Letters =>
         /\ result.kind = "Err"
         /\ result.e.err = "NodeTextParseFailed"
         /\ result.e.tag = "step"
    /\ result.kind = "Ok" => result.v.step \in 1..7 /\ StepChar(argument.node) \in Letters

\* s is an optional sign followed by decimal digits
IsInteger(s) ==
  LET ds == IF s # <<>> /\ s[1] \in {"+", "-"} THEN Tail(s) ELSE s
  IN  ds # <<>> /\ \A i \in 1..Len(ds) : ds[i] \in Digits

IntegerValue(s) ==
  IF s[1] = "-" THEN 0 - DecimalValue(Tail(s))
  ELSE IF s[1] = "+" THEN DecimalValue(Tail(s))
  ELSE DecimalValue(s)

\* C10: a pitch with a valid step and octave has alter 0 when it has no alter
\* child, and when it has exactly one alter child whose text is an integer,
\* negative ones such as -1 included, it maps and its alter is that integer.
C10_AlterIsTheInteger ==
  /\ call = "Pitch::from_node"
  /\ HasStepChar(argument.node) /\ StepChar(argument.node) \in Letters
  /\ HasParseable(TyU8, argument.node, "octave")
  => LET node == argument.node
     IN  /\ Count(node, "alter") = 0 => result.kind = "Ok" /\ result.v.alter = 0
         /\ /\ Count(node, "alter") = 1
            /\ Only(node, "alter").text.some
            /\ IsInteger(Only(node, "alter").text.v)
            => /\ result.kind = "Ok"
               /\ result.v.alter = IntegerValue(Only(node, "alter").text.v)

\* the duration a note is given: the value of its only duration child when
\* that parses as a u8, and 0 otherwise
ExpectedDuration(node) ==
  IF HasParseable(TyU8, node, "duration") THEN ParsedChild(TyU8, node, "duration")
  ELSE 0

\* the rest/pitch group of a note has resolved to exactly one member
GroupResolved(node) ==
  LET has_rest == Count(node, "rest") > 0
      has_pitch == Count(node, "pitch") > 0
  IN  \/ has_rest /\ ~has_pitch
      \/ ~has_rest /\ has_pitch /\ FirstPitchOutcome(node).kind = "Ok"

\* C8: once the rest/pitch group has resolved to one member the note maps,
\* whatever its duration children are: its duration is the parsed value of
\* the only duration child (60 for "60") and 0 when that child is absent,
\* duplicated, without text or not a u8.
C8_DurationNeverFails ==
  call = "Note::from_node" /\ GroupResolved(argument.node) =>
    /\ result.kind = "Ok"
    /\ result.v.duration = ExpectedDuration(argument.node)
    /\ Count(argument.node, "duration") = 1 /\ First(argument.node, "duration") = Duration60 =>
         result.v.duration = 60

\* a rest with a duration that overflows a u8 has been mapped to duration 0
C8_Witness ==
  /\ call = "Note::from_node"
  /\ Count(argument.node, "rest") = 1
  /\ Count(argument.node, "pitch") = 0
  /\ Count(argument.node, "duration") = 1
  /\ First(argument.node, "duration").text = Some(<<"3", "0", "0">>)
  /\ result.kind = "Ok"
  /\ result.v.duration = 0

\* child i of the rootfiles element is a rootfile whose media-type is the
\* score media type or absent
IsCandidate(rootfiles, i) ==
  /\ rootfiles.chd[i].tag = "rootfile"
  /\ \/ "media-type" \notin DOMAIN rootfiles.chd[i].attrs
     \/ rootfiles.chd[i].attrs["media-type"] = ScoreMediaType

\* C6: on a manifest whose root has a rootfiles child, parse_music_xml_path
\* answers for the first rootfile child, in document order, whose media-type
\* is the score media type or absent: its full-path (AttrNotFound when that
\* entry has none), skipping rootfile children of any other media type; and
\* when no rootfile child qualifies, none at all included, it fails with
\* NodeNotFound naming rootfile.
C6_FirstMatchingRootfile ==
  /\ call = "parse_music_xml_path"
  /\ ContainerPath \in DOMAIN argument.archive
  /\ argument.archive[ContainerPath].utf8
  /\ argument.archive[ContainerPath].wellformed
  /\ Count(argument.archive[ContainerPath].root, "rootfiles") > 0
  => LET rootfiles == First(argument.archive[ContainerPath].root, "rootfiles")
         n == Len(rootfiles.chd)
     IN  /\ (\A i \in 1..n : ~IsCandidate(rootfiles, i)) =>
              /\ result.kind = "Err"
              /\ result.e.err = "NodeNotFound"
              /\ result.e.tag = "rootfile"
         /\ \A i \in 1..n :
              /\ IsCandidate(rootfiles, i)
              /\ \A j \in 1..(i - 1) : ~IsCandidate(rootfiles, j)
              => IF "full-path" \in DOMAIN rootfiles.chd[i].attrs
                   THEN result = Ok(rootfiles.chd[i].attrs["full-path"])
                   ELSE result.kind = "Err" /\ result.e.err = "AttrNotFound"

\* a rootfile without media-type, after one of another media type and before
\* one of the score media type, has been selected
C6_Witness ==
  /\ call = "parse_music_xml_path"
  /\ result = Ok("a.xml")
  /\ \E root \in ContainerRoots :
       /\ argument.archive = [p \in {ContainerPath} |-> Doc(root)]
       /\ Count(root, "rootfiles") = 1
       /\ LET chd == First(root, "rootfiles").chd
          IN  /\ Len(chd) = 3
              /\ chd[1].attrs = [a \in {"media-type", "full-path"} |->
                                   IF a = "full-path" THEN "b.xml" ELSE "application/pdf"]
              /\ chd[2].attrs = [a \in {"full-path"} |-> "a.xml"]
              /\ chd[3].attrs = [a \in {"media-type", "full-path"} |->
                                   IF a = "full-path" THEN "b.xml" ELSE ScoreMediaType]

\* the outcomes of mapping, in document order, the children of node with the
\* given tag
Outcomes(node, tag, from_node) ==
  LET I == {i \in 1..Len(node.chd) : node.chd[i].tag = tag}
      nth(k) == CHOOSE i \in I : Cardinality({j \in I : j < i}) = k - 1
  IN  [k \in 1..Cardinality(I) |-> from_node[node.chd[nth(k)]]]

\* what collect-many owes for these outcomes: all the records, in order, or
\* the first outcome that is not a record
Collected(outs) ==
  IF \A k \in 1..Len(outs) : outs[k].kind = "Ok"
    THEN Ok([k \in 1..Len(outs) |-> outs[k].v])
  ELSE outs[CHOOSE k \in 1..Len(outs) :
              /\ outs[k].kind # "Ok"
              /\ \A j \in 1..(k - 1) : outs[j].kind = "Ok"]

\* C9: Score.parts, Part.measures, Measure.notes and Attribute.clef hold the
\* records mapped from the children with the record's tag, as many and in the
\* same order as those children, children with other tags skipped; when a
\* matching child fails to map, the result is the failure of the first such
\* child in document order, unchanged, and no sequence.
C9_CollectManyInOrder ==
  /\ call = "Score::from_node" =>
       LET owed == Collected(Outcomes(argument.node, "part",
                                  [c \in Tagged(argument.node, "part") |-> PartFromNode(c)]))
       IN  result = IF owed.kind = "Ok" THEN Ok([parts |-> owed.v]) ELSE owed
  /\ call = "Part::from_node" =>
       LET owed == Collected(Outcomes(argument.node, "measure",
                                  [c \in Tagged(argument.node, "measure") |-> MeasureFromNode(c)]))
       IN  result = IF owed.kind = "Ok" THEN Ok([measures |-> owed.v]) ELSE owed
  /\ call = "Measure::from_node" =>
       LET owed == Collected(Outcomes(argument.node, "note",
                                  [c \in Tagged(argument.node, "note") |-> NoteFromNode(c)]))
           earlier_ok ==
             /\ parse_attr(TyU16, argument.node, "number").kind = "Ok"
             /\ parse_option_chd(argument.node, "attributes",
                                 [c \in Tagged(argument.node, "attributes") |-> AttributeFromNode(c)]).kind = "Ok"
       IN  /\ result.kind = "Ok" => owed.kind = "Ok" /\ result.v.notes = owed.v
           /\ earlier_ok /\ owed.kind = "Ok" => result.kind = "Ok"
           /\ earlier_ok /\ owed.kind # "Ok" => result = owed
  /\ call = "Attribute::from_node" =>
       LET owed == Collected(Outcomes(argument.node, "clef",
                                  [c \in Tagged(argument.node, "clef") |-> ClefFromNode(c)]))
           earlier_ok ==
             /\ parse_chd_text(TyU8, argument.node, "divisions").kind = "Ok"
             /\ parse_chd_text(TyU8, argument.node, "staves").kind = "Ok"
       IN  /\ result.kind = "Ok" => owed.kind = "Ok" /\ result.v.clef = owed.v
           /\ earlier_ok /\ owed.kind = "Ok" => result.kind = "Ok"
           /\ earlier_ok /\ owed.kind # "Ok" => result = owed

\* a part with two different measures around a child of another tag has been
\* mapped
C9_Witness ==
  /\ call = "Part::from_node"
  /\ argument.node.chd = <<Measure2, Node("barline", <<>>), Measure1>>
  /\ result.kind = "Ok"
  /\ Len(result.v.measures) = 2
  /\ result.v.measures[1].number = 2
  /\ result.v.measures[2].number = 1

====
